---- MODULE Spec2Model ----
(***************************************************************************)
(* Minyan Finder API: the four broadcast handlers of routes.py, the        *)
(* request-scoped session of app.py and the helpers of utils.py, as a      *)
(* state machine over the committed rows of the broadcasts table.          *)
(***************************************************************************)
EXTENDS Integers, Sequences, FiniteSets, TLC

VARIABLES
    store,      \* committed rows of the broadcasts table: id -> row
    nextId,     \* number of ids the store has handed out so far
    g,          \* flask.g of the request in progress: NoSession or the session
    req,        \* the request in progress (NoReq between requests)
    resp,       \* what the handler returned for it (NoResp between requests)
    sessions,   \* sessions made by Session() and not yet close()d
    txn         \* the update requests served side by side, each at its step

vars == <<store, nextId, g, req, resp, sessions, txn>>

(***************************************************************************)
(* Bounds                                                                  *)
(***************************************************************************)
\* ids the store hands out in one behaviour (creates that reach the insert)
MaxIds == 2
\* how many things of one request may differ from the plain request of its
\* kind (its fields, and a store fault)
MaxOdd == 2
\* sessions that may be open at once before a request has to wait for one
MaxOpen == 3
\* update requests that are served side by side, each of them once
MaxRacers == 2

Ids == 1..MaxIds
\* ids a caller may name: every id that can exist, and one that never does
AskIds == 0..MaxIds
Racers == 1..MaxRacers

(***************************************************************************)
(* JSON values of a request payload.  A payload is a function from the     *)
(* keys it carries to values; a key that is not in its DOMAIN is missing.  *)
(***************************************************************************)
Num(n) == [k |-> "num", n |-> n, body |-> "", sfx |-> ""]
\* a string, written as a body and a suffix: "2025-12-27T08:00:00" \o "Z"
Str(b, s) == [k |-> "str", n |-> 0, body |-> b, sfx |-> s]
Null == [k |-> "null", n |-> 0, body |-> "", sfx |-> ""]

\* request.get_json() of a request that carries no JSON object
NoBody == [nobody |-> TRUE]

Has(data, key) == key \in DOMAIN data
\* dict.get(key, default)
Get(data, key, default) == IF Has(data, key) THEN data[key] ELSE default

(***************************************************************************)
(* utils.py                                                                *)
(***************************************************************************)
\* the (is_valid, error_msg) pair of the validators
Ok == [ok |-> TRUE, msg |-> ""]
Bad(m) == [ok |-> FALSE, msg |-> m]

IsNumber(v) == v.k = "num"

validate_coordinates(latitude, longitude) ==
    IF ~IsNumber(latitude) \/ ~IsNumber(longitude)
    THEN Bad("Latitude and longitude must be numbers")
    ELSE IF latitude.n < -90 \/ latitude.n > 90
    THEN Bad("Latitude must be between -90 and 90")
    ELSE IF longitude.n < -180 \/ longitude.n > 180
    THEN Bad("Longitude must be between -180 and 180")
    ELSE Ok

valid_types == {Str("shacharit", ""), Str("mincha", ""), Str("maariv", "")}

validate_minyan_type(minyan_type) ==
    IF minyan_type \notin valid_types
    THEN Bad("Minyan type must be one of: shacharit, mincha, maariv")
    ELSE Ok

(***************************************************************************)
(* calculate_distance, on coordinates that are whole multiples of 90       *)
(* degrees, where the haversine terms are known exactly: sin^2 of a half   *)
(* difference is 0, 1/2 or 1 and the cosine of a latitude is 0 or 1.  The  *)
(* result is in whole miles, rounded up, so that distance <= radius is     *)
(* decided exactly for every radius that is a whole number of miles.       *)
(***************************************************************************)
\* Earth's radius in miles (R = 3959.0)
R == 3959

\* 2 * sin(d / 2) ** 2 for a difference of d degrees
TwiceSinSqHalf(d) ==
    CASE d % 360 = 0 -> 0
      [] d % 360 = 90 -> 1
      [] d % 360 = 180 -> 2
      [] d % 360 = 270 -> 1

\* cos of a latitude
Cos(lat) == IF lat % 180 = 0 THEN 1 ELSE 0

\* 2 * asin(sqrt(a)) in units of 1e-5 radians, from twice a
TwoAsinSqrt(a2) ==
    CASE a2 = 0 -> 0
      [] a2 = 1 -> 157080
      [] a2 = 2 -> 314160

calculate_distance(lat1, lon1, lat2, lon2) ==
    LET dlat == lat2 - lat1
        dlon == lon2 - lon1
        a2 == TwiceSinSqHalf(dlat) + Cos(lat1) * Cos(lat2) * TwiceSinSqHalf(dlon)
        c == TwoAsinSqrt(a2)
    IN  IF a2 = 0
        THEN \* in IEEE doubles cos(radians(90)) and sin(radians(180)) are
             \* about 1e-16, not 0: only equal arguments give exactly 0.0
             IF dlat = 0 /\ dlon = 0 THEN 0 ELSE 1
        ELSE (R * c + 99999) \div 100000

(***************************************************************************)
(* datetime.fromisoformat(s.replace('Z', '+00:00')) and the comparison of  *)
(* two datetimes.  A datetime is a wall-clock hour and, when it is aware,  *)
(* its UTC offset in hours.                                                *)
(***************************************************************************)
ValueError == [exc |-> "ValueError"]
AttributeError == [exc |-> "AttributeError"]
TypeError == [exc |-> "TypeError"]

IsExc(x) == "exc" \in DOMAIN x

\* str.replace('Z', '+00:00'); anything but a str has no replace()
ReplaceZ(v) ==
    IF v.k # "str" THEN AttributeError
    ELSE IF v.sfx = "Z" THEN Str(v.body, "+00:00")
    ELSE v

fromisoformat(s) ==
    LET wall == CASE s.body = "2025-12-27T08:00:00" -> 8
                  [] s.body = "2025-12-27T09:00:00" -> 9
                  [] OTHER -> -1
    IN  IF wall < 0 THEN ValueError
        ELSE CASE s.sfx = "" -> [wall |-> wall, aware |-> FALSE, off |-> 0]
               [] s.sfx = "+00:00" -> [wall |-> wall, aware |-> TRUE, off |-> 0]
               [] s.sfx = "+01:00" -> [wall |-> wall, aware |-> TRUE, off |-> 1]
               [] OTHER -> ValueError

ParseTime(v) ==
    LET r == ReplaceZ(v)
    IN  IF IsExc(r) THEN r ELSE fromisoformat(r)

\* a <= b on datetimes: TypeError when exactly one of them is aware
DtLe(a, b) ==
    IF a.aware # b.aware THEN TypeError
    ELSE [le |-> (a.wall - a.off) <= (b.wall - b.off)]

(***************************************************************************)
(* The broadcasts table and the SQLAlchemy session of one request.         *)
(* A session holds the objects it has loaded, with the attribute values    *)
(* assigned to them so far, the objects add()ed and the ids delete()d;     *)
(* none of it is in the table until commit() flushes it.                   *)
(***************************************************************************)
\* Broadcast(latitude=..., ..., active=True)
Broadcast(latitude, longitude, minyan_type, earliest_time, latest_time, active) ==
    [latitude |-> latitude, longitude |-> longitude, minyan_type |-> minyan_type,
     earliest_time |-> earliest_time, latest_time |-> latest_time,
     active |-> active]

\* Broadcast.to_dict(): all stored fields plus id
to_dict(id, b) ==
    [id |-> id, latitude |-> b.latitude, longitude |-> b.longitude,
     minyanType |-> b.minyan_type, earliestTime |-> b.earliest_time,
     latestTime |-> b.latest_time, active |-> b.active]

NoRows == [i \in {} |-> 0]
NoSession == [open |-> FALSE, objs |-> NoRows, new |-> <<>>, deleted |-> {}]
\* Session(): nothing loaded, nothing pending
Session == [open |-> TRUE, objs |-> NoRows, new |-> <<>>, deleted |-> {}]

\* the id the store assigns to a row inserted when n ids were handed out
FreshId(n) == n + 1

\* session.query(Broadcast).filter(Broadcast.id == id).first(): the row, loaded
\* into the session
Load(sess, st, id) == [sess EXCEPT !.objs = (id :> st[id]) @@ @]

\* assignment to an attribute of a loaded object
SetAttr(sess, id, b) == [sess EXCEPT !.objs = (id :> b) @@ @]

\* session.add(broadcast)
SessionAdd(sess, b) == [sess EXCEPT !.new = Append(@, b)]

\* a delete() that marks nothing
SessionDeleteNothing(sess, id) == sess

\* session.delete(broadcast)
SessionDelete(sess, id) == [sess EXCEPT !.deleted = @ \cup {id}]

\* the table after the session's pending state is flushed into it
Flush(sess, st, n) ==
    LET kept == [i \in (DOMAIN st) \ sess.deleted |->
                    IF i \in DOMAIN sess.objs THEN sess.objs[i] ELSE st[i]]
    IN  IF sess.new = <<>> THEN kept
        ELSE (FreshId(n) :> sess.new[1]) @@ kept

\* session.rollback() and session.close(): the pending state is dropped
SessionRollback(sess) == [sess EXCEPT !.objs = NoRows, !.new = <<>>, !.deleted = {}]
SessionClose(sess) == NoSession
\* the session after a commit(): everything pending is in the table
AfterCommit(sess) == [sess EXCEPT !.objs = NoRows, !.new = <<>>, !.deleted = {}]

(***************************************************************************)
(* What a handler returns: a status code and a body.  Every body has the   *)
(* same shape; a key the handler did not set is "" (0 for id, <<>> for     *)
(* items).                                                                 *)
(***************************************************************************)
Body(error, detail, id, message, items) ==
    [error |-> error, detail |-> detail, id |-> id, message |-> message,
     items |-> items]
Error(code, error, detail) ==
    [code |-> code, body |-> Body(error, detail, 0, "", <<>>)]

\* the store collaborator raising inside add/commit/delete/query
StoreError == "OperationalError"

\* the result of a handler: the table, the id counter, the session left in g
\* and the returned (body, code)
Outcome(st, n, sess, ret) == [store |-> st, nextId |-> n, sess |-> sess, ret |-> ret]

required_fields == <<"latitude", "longitude", "minyanType", "earliestTime", "latestTime">>

\* the loop reporting the last missing field instead of returning at the first
LastMissing(data) ==
    LET missing == {i \in 1..Len(required_fields) : ~Has(data, required_fields[i])}
    IN  IF missing = {} THEN ""
        ELSE required_fields[CHOOSE i \in missing : \A j \in missing : i >= j]

\* for field in required_fields: if field not in data: return ...
FirstMissing(data) ==
    LET missing == {i \in 1..Len(required_fields) : ~Has(data, required_fields[i])}
    IN  IF missing = {} THEN ""
        ELSE required_fields[CHOOSE i \in missing : \A j \in missing : i <= j]

\* the comparison written as latest_time < earliest_time
TimeOrderBadStrict(latest_time, earliest_time) ==
    IF latest_time.aware # earliest_time.aware THEN TypeError
    ELSE [le |-> (latest_time.wall - latest_time.off)
                    < (earliest_time.wall - earliest_time.off)]

\* if latest_time <= earliest_time
TimeOrderBad(latest_time, earliest_time) == DtLe(latest_time, earliest_time)

(***************************************************************************)
(* Broadcasts.post                                                         *)
(***************************************************************************)
\* a broadcast built with latitude and longitude exchanged
NewBroadcastSwapped(data, earliest_time, latest_time) ==
    Broadcast(data["longitude"].n, data["latitude"].n, data["minyanType"].body,
              earliest_time, latest_time, TRUE)

\* broadcast = Broadcast(latitude=data['latitude'], ..., active=True)
NewBroadcast(data, earliest_time, latest_time) ==
    Broadcast(data["latitude"].n, data["longitude"].n, data["minyanType"].body,
              earliest_time, latest_time, TRUE)

postFailed(st, n, sess, exc) ==
    Outcome(st, n, SessionRollback(sess),
            Error(400, "Failed to create broadcast", exc))

post(st, n, data, fault) ==
    LET sess == Session
        earliest_time == ParseTime(data["earliestTime"])
        latest_time == ParseTime(data["latestTime"])
        order == TimeOrderBad(latest_time, earliest_time)
        broadcast == NewBroadcast(data, earliest_time, latest_time)
        added == SessionAdd(sess, broadcast)
    IN  IF data = NoBody
        THEN postFailed(st, n, sess, "TypeError")
        ELSE IF FirstMissing(data) # ""
        THEN Outcome(st, n, sess,
                     Error(400, "Missing required field", FirstMissing(data)))
        ELSE IF ~validate_coordinates(data["latitude"], data["longitude"]).ok
        THEN Outcome(st, n, sess,
                     Error(400, validate_coordinates(data["latitude"],
                                                     data["longitude"]).msg, ""))
        ELSE IF ~validate_minyan_type(data["minyanType"]).ok
        THEN Outcome(st, n, sess,
                     Error(400, validate_minyan_type(data["minyanType"]).msg, ""))
        ELSE IF IsExc(earliest_time)
        THEN Outcome(st, n, sess,
                     Error(400, "Invalid time format", earliest_time.exc))
        ELSE IF IsExc(latest_time)
        THEN Outcome(st, n, sess,
                     Error(400, "Invalid time format", latest_time.exc))
        ELSE IF IsExc(order)
        THEN postFailed(st, n, sess, order.exc)
        ELSE IF order.le
        THEN Outcome(st, n, sess,
                     Error(400, "latestTime must be after earliestTime", ""))
        ELSE IF fault = "add"
        THEN postFailed(st, n, sess, StoreError)
        ELSE IF fault = "commit"
        THEN postFailed(st, n, added, StoreError)
        ELSE Outcome(Flush(added, st, n), FreshId(n), AfterCommit(added),
                     [code |-> 201,
                      body |-> Body("", "", FreshId(n),
                                    "Broadcast created successfully", <<>>)])

\* @api.marshal_with(broadcast_response_model, code=201): whatever post
\* returns, the body sent is its 'id' and 'message' keys and nothing else
marshal_with(ret) ==
    [ret EXCEPT !.body = Body("", "", ret.body.id, ret.body.message, <<>>)]

(***************************************************************************)
(* BroadcastById.put                                                       *)
(***************************************************************************)
\* except Exception: try: db_session.rollback() ...
putFailed(st, n, sess, exc) ==
    Outcome(st, n, SessionRollback(sess),
            Error(400, "Failed to update broadcast", exc))

\* new_lat = data.get('latitude', broadcast.latitude), and new_lon
MergedLat(b, data) == Get(data, "latitude", Num(b.latitude))
MergedLon(b, data) == Get(data, "longitude", Num(b.longitude))
TouchesCoords(data) == Has(data, "latitude") \/ Has(data, "longitude")

\* an update that also takes minyanType from the payload
AssignCoordsAndType(b, data) ==
    LET c == IF TouchesCoords(data)
             THEN [b EXCEPT !.latitude = MergedLat(b, data).n,
                            !.longitude = MergedLon(b, data).n]
             ELSE b
    IN  IF Has(data, "minyanType")
        THEN [c EXCEPT !.minyan_type = data["minyanType"].body]
        ELSE c

\* broadcast.latitude = new_lat; broadcast.longitude = new_lon
AssignCoords(b, data) ==
    IF TouchesCoords(data)
    THEN [b EXCEPT !.latitude = MergedLat(b, data).n,
                   !.longitude = MergedLon(b, data).n]
    ELSE b

\* broadcast.earliest_time = earliest_time
AssignEarliest(b, data) ==
    IF Has(data, "earliestTime")
    THEN [b EXCEPT !.earliest_time = ParseTime(data["earliestTime"])]
    ELSE b

\* the parsed latestTime assigned to earliest_time
AssignLatestToEarliest(b, data) ==
    IF Has(data, "latestTime")
    THEN [b EXCEPT !.earliest_time = ParseTime(data["latestTime"])]
    ELSE b

\* broadcast.latest_time = latest_time
AssignLatest(b, data) ==
    IF Has(data, "latestTime")
    THEN [b EXCEPT !.latest_time = ParseTime(data["latestTime"])]
    ELSE b

put(st, n, broadcast_id, body, fault) ==
    LET sess0 == Load(Session, st, broadcast_id)
        b0 == st[broadcast_id]
        data == IF body = NoBody THEN NoRows ELSE body
        coords == IF TouchesCoords(data)
                  THEN validate_coordinates(MergedLat(b0, data), MergedLon(b0, data))
                  ELSE Ok
        b1 == AssignCoords(b0, data)
        earliest_time == ParseTime(data["earliestTime"])
        b2 == AssignEarliest(b1, data)
        latest_time == ParseTime(data["latestTime"])
        b3 == AssignLatest(b2, data)
        order == TimeOrderBad(b3.latest_time, b3.earliest_time)
    IN  IF fault = "query"
        THEN putFailed(st, n, Session, StoreError)
        ELSE IF broadcast_id \notin DOMAIN st
        THEN Outcome(st, n, Session, Error(404, "Broadcast not found", ""))
        ELSE IF ~coords.ok
        THEN Outcome(st, n, sess0, Error(400, coords.msg, ""))
        ELSE IF Has(data, "earliestTime") /\ IsExc(earliest_time)
        THEN Outcome(st, n, SetAttr(sess0, broadcast_id, b1),
                     Error(400, "Invalid earliestTime format", earliest_time.exc))
        ELSE IF Has(data, "latestTime") /\ IsExc(latest_time)
        THEN Outcome(st, n, SetAttr(sess0, broadcast_id, b2),
                     Error(400, "Invalid latestTime format", latest_time.exc))
        ELSE IF IsExc(order)
        THEN putFailed(st, n, SetAttr(sess0, broadcast_id, b3), order.exc)
        ELSE IF order.le
        THEN Outcome(st, n, SetAttr(sess0, broadcast_id, b3),
                     Error(400, "latestTime must be after earliestTime", ""))
        ELSE IF fault = "commit"
        THEN putFailed(st, n, SetAttr(sess0, broadcast_id, b3), StoreError)
        ELSE Outcome(Flush(SetAttr(sess0, broadcast_id, b3), st, n), n,
                     AfterCommit(SetAttr(sess0, broadcast_id, b3)),
                     [code |-> 200,
                      body |-> Body("", "", 0, "Broadcast updated successfully",
                                    <<>>)])

(***************************************************************************)
(* BroadcastById.delete                                                    *)
(***************************************************************************)
deleteFailed(st, n, sess, exc) ==
    Outcome(st, n, SessionRollback(sess),
            Error(400, "Failed to delete broadcast", exc))

delete(st, n, broadcast_id, fault) ==
    LET sess0 == Load(Session, st, broadcast_id)
        gone == SessionDelete(sess0, broadcast_id)
    IN  IF fault = "query"
        THEN deleteFailed(st, n, Session, StoreError)
        ELSE IF broadcast_id \notin DOMAIN st
        THEN Outcome(st, n, Session, Error(404, "Broadcast not found", ""))
        ELSE IF fault = "delete"
        THEN deleteFailed(st, n, sess0, StoreError)
        ELSE IF fault = "commit"
        THEN deleteFailed(st, n, gone, StoreError)
        ELSE Outcome(Flush(gone, st, n), n, AfterCommit(gone),
                     [code |-> 204, body |-> Body("", "", 0, "", <<>>)])

(***************************************************************************)
(* NearbyBroadcasts.get                                                    *)
(***************************************************************************)
\* nearby_parser.parse_args(): latitude, longitude and radius are required
\* floats; a missing or non-numeric one aborts the request with BadRequest
ParseArgsFails(args) ==
    \E key \in {"latitude", "longitude", "radius"} :
        ~Has(args, key) \/ ~IsNumber(args[key])

\* bool(minyan_type): None and '' are false
Truthy(args) == Has(args, "minyanType") /\ args["minyanType"] # Str("", "")

\* the comparison written as distance < radius
WithinStrict(distance, radius) == distance < radius

\* if distance <= radius
Within(distance, radius) == distance <= radius

\* the rows of query.all(), in the order the store returns them, that the
\* distance loop keeps
RECURSIVE Keep(_, _, _, _, _)
Keep(st, rows, latitude, longitude, radius) ==
    IF rows = <<>> THEN <<>>
    ELSE LET id == Head(rows)
             rest == Keep(st, Tail(rows), latitude, longitude, radius)
             distance == calculate_distance(latitude, longitude,
                                            st[id].latitude, st[id].longitude)
         IN  IF Within(distance, radius) THEN <<to_dict(id, st[id])>> \o rest
             ELSE rest

\* does the query (active == True, and minyan_type == ... when given) match
Matches(b, args) ==
    /\ b.active = TRUE
    /\ Truthy(args) => b.minyan_type = args["minyanType"].body

get(st, n, args, rows, fault) ==
    LET sess == Session
        coords == validate_coordinates(args["latitude"], args["longitude"])
        matching == SelectSeq(rows, LAMBDA id : Matches(st[id], args))
    IN  IF ParseArgsFails(args)
        THEN Outcome(st, n, sess,
                     Error(400, "Failed to find nearby broadcasts", "BadRequest"))
        ELSE IF ~coords.ok
        THEN Outcome(st, n, sess, Error(400, coords.msg, ""))
        ELSE IF args["radius"].n < 0
        THEN Outcome(st, n, sess, Error(400, "Radius must be non-negative", ""))
        ELSE IF Truthy(args) /\ ~validate_minyan_type(args["minyanType"]).ok
        THEN Outcome(st, n, sess,
                     Error(400, validate_minyan_type(args["minyanType"]).msg, ""))
        ELSE IF fault = "query"
        THEN Outcome(st, n, sess,
                     Error(400, "Failed to find nearby broadcasts", StoreError))
        ELSE Outcome(st, n, sess,
                     [code |-> 200,
                      body |-> Body("", "", 0, "",
                                    Keep(st, matching, args["latitude"].n,
                                         args["longitude"].n, args["radius"].n))])

(***************************************************************************)
(* Requests.  The payloads are a plain request with up to MaxOdd of its    *)
(* fields replaced or left out.                                            *)
(***************************************************************************)
\* marks a key that the payload does not carry
Absent == [k |-> "absent", n |-> 0, body |-> "", sfx |-> ""]
Strip(d) == [key \in {x \in DOMAIN d : d[x] # Absent} |-> d[key]]
Odd(d, plain) == Cardinality({key \in DOMAIN d : d[key] # plain[key]})
FaultOdd(fault) == IF fault = "none" THEN 0 ELSE 1

T8Z == Str("2025-12-27T08:00:00", "Z")
T9Z == Str("2025-12-27T09:00:00", "Z")
T9P1 == Str("2025-12-27T09:00:00", "+01:00")
T8 == Str("2025-12-27T08:00:00", "")
T9 == Str("2025-12-27T09:00:00", "")
Soon == Str("soon", "")

PlainCreate ==
    [latitude |-> Num(0), longitude |-> Num(0),
     minyanType |-> Str("shacharit", ""), earliestTime |-> T8Z,
     latestTime |-> T9Z]

CreateFields ==
    [latitude : {Num(0), Num(90), Num(91), Null, Absent},
     longitude : {Num(0), Num(181), Absent},
     minyanType : {Str("shacharit", ""), Str("Shacharit", ""), Absent},
     earliestTime : {T8Z, T9P1, T8, T9Z, Soon, Num(8), Absent},
     latestTime : {T9Z, T9, T8Z, Soon, Absent}]

CreateFaults == {"none", "add", "commit"}

CreateInputs ==
    {<<Strip(d), fault>> : <<d, fault>> \in
        {x \in CreateFields \X CreateFaults :
            Odd(x[1], PlainCreate) + FaultOdd(x[2]) <= MaxOdd}}
        \cup {<<NoBody, "none">>}

PlainUpdate ==
    [latitude |-> Absent, longitude |-> Absent, earliestTime |-> Absent,
     latestTime |-> Absent, minyanType |-> Absent, active |-> Absent,
     id |-> Absent]

UpdateFields ==
    [latitude : {Absent, Num(0), Num(90), Num(91)},
     longitude : {Absent, Num(0), Num(181)},
     earliestTime : {Absent, T8Z, T9P1, T8, T9Z, Soon, Num(8)},
     latestTime : {Absent, T9Z, T9, T8Z, Soon},
     minyanType : {Absent, Str("maariv", "")},
     active : {Absent, Null},
     id : {Absent, Num(0)}]

UpdateFaults == {"none", "query", "commit"}

UpdateInputs ==
    {<<Strip(d), fault>> : <<d, fault>> \in
        {x \in UpdateFields \X UpdateFaults :
            Odd(x[1], PlainUpdate) + FaultOdd(x[2]) <= MaxOdd}}
        \cup {<<NoBody, "none">>}

DeleteFaults == {"none", "query", "delete", "commit"}

PlainNearby ==
    [latitude |-> Num(0), longitude |-> Num(0), radius |-> Num(0),
     minyanType |-> Absent]

NearbyFields ==
    [latitude : {Num(0), Num(90), Num(91), Absent},
     longitude : {Num(0), Num(180), Num(181)},
     radius : {Num(0), Num(-1), Num(6218), Num(6219), Num(12438), Str("far", "")},
     minyanType : {Absent, Str("shacharit", ""), Str("maariv", ""),
                   Str("Shacharit", ""), Str("", "")}]

NearbyFaults == {"none", "query"}

NearbyInputs ==
    {<<Strip(d), fault>> : <<d, fault>> \in
        {x \in NearbyFields \X NearbyFaults :
            Odd(x[1], PlainNearby) + FaultOdd(x[2]) <= MaxOdd}}

\* the orders in which a query with no ORDER BY may return the rows ids
Orders(ids) ==
    {rows \in [1..Cardinality(ids) -> ids] :
        \A i, j \in DOMAIN rows : rows[i] = rows[j] => i = j}

\* requests of the specification that varies the places and the types
GeoCreateInputs ==
    {[PlainCreate EXCEPT !.latitude = Num(lat), !.longitude = Num(lon),
                         !.minyanType = Str(type, "")] :
        lat \in {0, 90}, lon \in {0, 180}, type \in {"shacharit", "maariv"}}

GeoUpdateInputs ==
    {Strip(d) : d \in [latitude : {Absent, Num(0), Num(90)},
                       longitude : {Absent, Num(0), Num(180)}]}

GeoNearbyInputs ==
    {<<Strip(d), fault>> : <<d, fault>> \in
        {x \in NearbyFields \X NearbyFaults :
            x[2] = "none" \/ x[1] = PlainNearby}}

(***************************************************************************)
(* The state machine: one action per handler, and the teardown that Flask  *)
(* runs when the request's application context is popped.                  *)
(***************************************************************************)
Request(op, id, data, fault) == [op |-> op, id |-> id, data |-> data, fault |-> fault]
NoReq == Request("none", 0, NoBody, "none")
\* ret: what the handler returned; sent: what the caller receives
Response(ret, sent) == [ret |-> ret, sent |-> sent]
NoResp == Response(Error(0, "", ""), Error(0, "", ""))

\* an update request running beside others: the step it is at, its id and
\* payload, the row as it loaded it, the row with its assignments, and the
\* status it returned
Txn(pc, id, data, loaded, row, code) ==
    [pc |-> pc, id |-> id, data |-> data, loaded |-> loaded, row |-> row,
     code |-> code]
NoRow == Broadcast(0, 0, "", ParseTime(T8), ParseTime(T8), FALSE)
NoTxn == Txn("idle", 0, NoRows, NoRow, NoRow, 0)

Init ==
    /\ txn = [s \in Racers |-> NoTxn]
    /\ store = NoRows
    /\ nextId = 0
    /\ g = NoSession
    /\ req = NoReq
    /\ resp = NoResp
    /\ sessions = 0

\* a request starts with no session in g (get_db_session creates it)
Idle == ~g.open /\ req = NoReq

\* get_db_session(): the session of g, made by Session() if g has none
get_db_session(gv) == IF ~gv.open THEN Session ELSE gv
\* the sessions that get_db_session() makes: one if g has none
Made(gv) == IF ~gv.open THEN 1 ELSE 0

Handled(o, r, sent) ==
    /\ o.nextId <= MaxIds
    /\ get_db_session(g).open
    /\ sessions + Made(g) <= MaxOpen
    /\ sessions' = sessions + Made(g)
    /\ UNCHANGED txn
    /\ store' = o.store
    /\ nextId' = o.nextId
    /\ g' = o.sess
    /\ req' = r
    /\ resp' = Response(o.ret, sent)

Create(data, fault) ==
    /\ Idle
    /\ LET o == post(store, nextId, data, fault)
       IN  Handled(o, Request("create", 0, data, fault), marshal_with(o.ret))

Update(id, data, fault) ==
    /\ Idle
    /\ LET o == put(store, nextId, id, data, fault)
       IN  Handled(o, Request("update", id, data, fault), o.ret)

Delete(id, fault) ==
    /\ Idle
    /\ LET o == delete(store, nextId, id, fault)
       IN  Handled(o, Request("delete", id, NoBody, fault), o.ret)

FindNearby(args, rows, fault) ==
    /\ Idle
    /\ LET o == get(store, nextId, args, rows, fault)
       IN  Handled(o, Request("findNearby", 0, args, fault), o.ret)

\* a close() that flushes what is pending, as a commit() would
ClosedFlushing(sess, st, n) == Flush(sess, st, n)

\* session.close(): the connection is released and nothing pending is flushed
Closed(sess, st, n) == st

\* a teardown that pops the session from g and does not close it
ReleasedNone(sess) == 0

\* if db_session: db_session.close(): the sessions that the teardown closes
Released(sess) == IF sess.open THEN 1 ELSE 0

\* @app.teardown_appcontext
close_db ==
    /\ g.open
    /\ store' = Closed(g, store, nextId)
    /\ g' = SessionClose(g)
    /\ sessions' = sessions - Released(g)
    /\ UNCHANGED txn
    /\ req' = NoReq
    /\ resp' = NoResp
    /\ UNCHANGED nextId

Next ==
    \/ Idle /\ \E x \in CreateInputs : Create(x[1], x[2])
    \/ Idle /\ \E id \in AskIds, x \in UpdateInputs : Update(id, x[1], x[2])
    \/ Idle /\ \E id \in AskIds, fault \in DeleteFaults : Delete(id, fault)
    \/ Idle /\ \E x \in NearbyInputs, rows \in Orders(DOMAIN store) :
                    FindNearby(x[1], rows, x[2])
    \/ close_db

Spec == Init /\ [][Next]_vars

\* the same handlers, on requests that vary the places and the types
NextGeo ==
    \/ Idle /\ \E data \in GeoCreateInputs : Create(data, "none")
    \/ Idle /\ \E id \in Ids, data \in GeoUpdateInputs : Update(id, data, "none")
    \/ Idle /\ \E id \in Ids : Delete(id, "none")
    \/ Idle /\ \E x \in GeoNearbyInputs, rows \in Orders(DOMAIN store) :
                    FindNearby(x[1], rows, x[2])
    \/ close_db

SpecGeo == Init /\ [][NextGeo]_vars

\* requests that end in each outcome: success, validation failure, not found
\* and an exception inside the handler
LifeCreateInputs ==
    {<<PlainCreate, fault>> : fault \in CreateFaults}
        \cup {<<Strip([PlainCreate EXCEPT !.latitude = Absent]), "none">>,
              <<[PlainCreate EXCEPT !.earliestTime = T8], "none">>,
              <<NoBody, "none">>}

LifeUpdateInputs ==
    {<<[latitude |-> Num(90)], fault>> : fault \in UpdateFaults}
        \cup {<<[latitude |-> Num(0)], "none">>,
              <<[latitude |-> Num(91)], "none">>,
              <<[latitude |-> Num(90), latestTime |-> Soon], "none">>,
              <<[latitude |-> Num(90), latestTime |-> T8Z], "none">>,
              <<[latitude |-> Num(90), latestTime |-> T9], "none">>}

LifeNearbyInputs ==
    {<<Strip(PlainNearby), fault>> : fault \in NearbyFaults}
        \cup {<<Strip([PlainNearby EXCEPT !.latitude = Num(91)]), "none">>,
              <<Strip([PlainNearby EXCEPT !.latitude = Absent]), "none">>}

NextLife ==
    \/ Idle /\ \E x \in LifeCreateInputs : Create(x[1], x[2])
    \/ Idle /\ \E id \in AskIds, x \in LifeUpdateInputs : Update(id, x[1], x[2])
    \/ Idle /\ \E id \in AskIds, fault \in DeleteFaults : Delete(id, fault)
    \/ Idle /\ \E x \in LifeNearbyInputs, rows \in Orders(DOMAIN store) :
                    FindNearby(x[1], rows, x[2])
    \/ close_db

\* Flask pops the application context at the end of every request, and the
\* teardown runs then whatever the handler returned or raised
SpecLife == Init /\ [][NextLife]_vars /\ WF_vars(close_db)

(***************************************************************************)
(* BroadcastById.put, step by step, for requests that run side by side:    *)
(* each has its own g and session, and all share the table.                *)
(***************************************************************************)
T8P1 == Str("2025-12-27T08:00:00", "+01:00")

RaceCreateInputs == {PlainCreate, [PlainCreate EXCEPT !.earliestTime = T8P1]}

RaceUpdateInputs ==
    {[earliestTime |-> T8Z], [earliestTime |-> T8P1],
     [latestTime |-> T9Z], [latestTime |-> T9P1]}

\* db_session.query(Broadcast).filter(Broadcast.id == broadcast_id).first()
PutBegin(s, id, data) ==
    /\ txn[s].pc = "idle"
    /\ sessions + Made(NoSession) <= MaxOpen
    /\ sessions' = sessions + Made(NoSession)
    /\ txn' = [txn EXCEPT ![s] =
                  IF id \notin DOMAIN store
                  THEN Txn("done", id, data, NoRow, NoRow, 404)
                  ELSE Txn("loaded", id, data, store[id], store[id], 0)]
    /\ UNCHANGED <<store, nextId, g, req, resp>>

\* the assignments and checks of put, on the row as this request loaded it
PutCheck(s) ==
    /\ txn[s].pc = "loaded"
    /\ LET t == txn[s]
           o == put((t.id :> t.loaded), nextId, t.id, t.data, "none")
       IN  txn' = [txn EXCEPT ![s] =
                      IF o.ret.code = 200
                      THEN Txn("checked", t.id, t.data, t.loaded, o.store[t.id], 0)
                      ELSE Txn("done", t.id, t.data, NoRow, NoRow, o.ret.code)]
    /\ UNCHANGED <<store, nextId, g, req, resp, sessions>>

\* the UPDATE that commit() flushes: it sets the columns whose attribute was
\* given a new value, in the row as it is in the table now
WriteChanged(loaded, row, current) ==
    [current EXCEPT
        !.latitude = IF row.latitude # loaded.latitude THEN row.latitude ELSE @,
        !.longitude = IF row.longitude # loaded.longitude THEN row.longitude ELSE @,
        !.earliest_time = IF row.earliest_time # loaded.earliest_time
                          THEN row.earliest_time ELSE @,
        !.latest_time = IF row.latest_time # loaded.latest_time
                        THEN row.latest_time ELSE @]

\* db_session.commit()
PutCommit(s) ==
    /\ txn[s].pc = "checked"
    /\ LET t == txn[s]
       IN  /\ store' = [store EXCEPT ![t.id] = WriteChanged(t.loaded, t.row, @)]
           /\ txn' = [txn EXCEPT ![s] = Txn("done", t.id, t.data, NoRow, NoRow, 200)]
    /\ UNCHANGED <<nextId, g, req, resp, sessions>>

\* the teardown of this request
PutEnd(s) ==
    /\ txn[s].pc = "done"
    /\ txn' = [txn EXCEPT ![s].pc = "ended"]
    /\ sessions' = sessions - Released(Session)
    /\ UNCHANGED <<store, nextId, g, req, resp>>

NextRace ==
    \/ Idle /\ \E data \in RaceCreateInputs : Create(data, "none")
    \/ close_db
    \/ \E s \in Racers, id \in Ids, data \in RaceUpdateInputs : PutBegin(s, id, data)
    \/ \E s \in Racers : PutCheck(s)
    \/ \E s \in Racers : PutCommit(s)
    \/ \E s \in Racers : PutEnd(s)

SpecRace == Init /\ [][NextRace]_vars

(***************************************************************************)
(* Properties                                                              *)
(***************************************************************************)
\* the request that the step s -> s' is part of, and its response
Handling == req' # NoReq
Teardown == req # NoReq /\ req' = NoReq
Succeeded(r) == r.ret.code \in {200, 201, 204}
Failed(r) == r.ret.code \notin {0, 200, 201, 204}

\* latest is strictly after earliest: the two are comparable and the instant
\* of latest is the later one
After(latest, earliest) ==
    /\ latest.aware = earliest.aware
    /\ (latest.wall - latest.off) > (earliest.wall - earliest.off)

TimesOrdered(st) ==
    \A id \in DOMAIN st : After(st[id].latest_time, st[id].earliest_time)

\* a create payload that passes every check before the time order and whose
\* two times are the same instant
EqualTimes(data) ==
    /\ data # NoBody
    /\ FirstMissing(data) = ""
    /\ validate_coordinates(data["latitude"], data["longitude"]).ok
    /\ validate_minyan_type(data["minyanType"]).ok
    /\ ~IsExc(ParseTime(data["earliestTime"]))
    /\ ~IsExc(ParseTime(data["latestTime"]))
    /\ LET e == ParseTime(data["earliestTime"])
           l == ParseTime(data["latestTime"])
       IN  e.aware = l.aware /\ e.wall - e.off = l.wall - l.off

\* C1: after every create, update and delete, successful or failed, every
\* stored broadcast has latestTime strictly after earliestTime; a create whose
\* latestTime equals its earliestTime is rejected and inserts nothing.
C1_TimeOrder ==
    [][/\ TimesOrdered(store')
       /\ (req'.op = "create" /\ EqualTimes(req'.data)) =>
              /\ resp'.ret.code = 400
              /\ resp'.ret.body.error = "latestTime must be after earliestTime"
              /\ store' = store]_vars

\* a create with equal times has just been rejected, next to a stored row
C1_Witness ==
    /\ req.op = "create"
    /\ EqualTimes(req.data)
    /\ resp.ret.code = 400
    /\ DOMAIN store # {}

\* C2: a create, update or delete that ends in a failure leaves the committed
\* rows as they were before the request, also once its session is closed; so
\* does an update that assigned valid coordinates to the loaded row and then
\* failed on its times.
C2_FailureKeepsStore ==
    [][/\ (Handling /\ req'.op \in {"create", "update", "delete"}
              /\ Failed(resp')) => store' = store
       /\ (Teardown /\ req.op \in {"create", "update", "delete"}
              /\ Failed(resp)) => store' = store]_vars

\* an update has failed on its times with new coordinates assigned to the
\* loaded row and not rolled back
C2_Witness ==
    /\ req.op = "update"
    /\ resp.ret.code = 400
    /\ resp.ret.body.error \in {"Invalid earliestTime format",
                                "Invalid latestTime format",
                                "latestTime must be after earliestTime"}
    /\ req.id \in DOMAIN g.objs
    /\ g.objs[req.id].latitude # store[req.id].latitude

\* findNearby arguments that pass every check of the operation
ValidNearby(args) ==
    /\ \A key \in {"latitude", "longitude", "radius"} :
           Has(args, key) /\ IsNumber(args[key])
    /\ args["latitude"].n >= -90 /\ args["latitude"].n <= 90
    /\ args["longitude"].n >= -180 /\ args["longitude"].n <= 180
    /\ args["radius"].n >= 0
    /\ Has(args, "minyanType") => args["minyanType"] \in valid_types

\* the stored broadcasts a findNearby with these arguments is to return
Qualifying(st, args) ==
    {id \in DOMAIN st :
        /\ st[id].active
        /\ Has(args, "minyanType") => st[id].minyan_type = args["minyanType"].body
        /\ calculate_distance(args["latitude"].n, args["longitude"].n,
                              st[id].latitude, st[id].longitude)
              <= args["radius"].n}

Items == resp.ret.body.items

\* C3: for valid inputs findNearby returns exactly the stored broadcasts that
\* are active, of the given type when one is given, and at a distance of at
\* most radius, each of them once.
C3_NearbyExact ==
    (req.op = "findNearby" /\ req.fault = "none" /\ ValidNearby(req.data)) =>
        /\ resp.ret.code = 200
        /\ {Items[i] : i \in DOMAIN Items}
              = {to_dict(id, store[id]) : id \in Qualifying(store, req.data)}
        /\ Len(Items) = Cardinality(Qualifying(store, req.data))

\* a radius-0 search at the exact coordinates of one of two stored broadcasts
\* has returned that one and not the other
C3_Witness ==
    /\ req.op = "findNearby"
    /\ req.fault = "none"
    /\ ValidNearby(req.data)
    /\ req.data["radius"].n = 0
    /\ Cardinality(DOMAIN store) = 2
    /\ Len(Items) = 1
    /\ Items[1].latitude = req.data["latitude"].n
    /\ Items[1].longitude = req.data["longitude"].n

\* the lookup of the request completed: the store raised nothing in the query
LookedUp(r) == r.op \in {"update", "delete"} /\ r.fault # "query"

\* C4: update and delete of an id that is not in the store fail with
\* NotFoundError whatever the payload; an id that was deleted never comes
\* back, a successful delete leaves its id out of the store, and findNearby
\* returns only ids that are in the store.
C4_NotFound ==
    [][/\ (LookedUp(req') /\ req'.id \notin DOMAIN store) =>
              /\ resp'.ret.code = 404
              /\ resp'.ret.body.error = "Broadcast not found"
              /\ store' = store
       /\ (req'.op = "delete" /\ resp'.ret.code = 204) =>
              req'.id \notin DOMAIN store'
       /\ \A id \in 1..nextId : id \notin DOMAIN store => id \notin DOMAIN store'
       /\ req'.op = "findNearby" =>
              \A i \in DOMAIN resp'.ret.body.items :
                  resp'.ret.body.items[i].id \in DOMAIN store]_vars

\* an update with a payload that would fail validation, of an id that was
\* deleted earlier, has been answered with 404
C4_Witness ==
    /\ req.op = "update"
    /\ req.id \in 1..nextId
    /\ req.id \notin DOMAIN store
    /\ req.data # NoBody
    /\ Has(req.data, "latitude")
    /\ req.data["latitude"] = Num(91)
    /\ resp.ret.code = 404

\* a create payload that passes all checks
PassesChecks(data) ==
    /\ data # NoBody
    /\ \A key \in {"latitude", "longitude", "minyanType", "earliestTime",
                   "latestTime"} : Has(data, key)
    /\ IsNumber(data["latitude"]) /\ IsNumber(data["longitude"])
    /\ data["latitude"].n >= -90 /\ data["latitude"].n <= 90
    /\ data["longitude"].n >= -180 /\ data["longitude"].n <= 180
    /\ data["minyanType"] \in valid_types
    /\ ~IsExc(ParseTime(data["earliestTime"]))
    /\ ~IsExc(ParseTime(data["latestTime"]))
    /\ After(ParseTime(data["latestTime"]), ParseTime(data["earliestTime"]))

\* C5: a create that passes all checks adds exactly one record, active, with
\* the supplied fields and an id no stored record has; the records stored
\* before are unchanged and the id returned is the id of the new record.
C5_CreateAddsOne ==
    [][(req'.op = "create" /\ req'.fault = "none" /\ PassesChecks(req'.data)) =>
          LET id == resp'.sent.body.id
              data == req'.data
          IN  /\ resp'.sent.code = 201
              /\ id \notin DOMAIN store
              /\ DOMAIN store' = DOMAIN store \cup {id}
              /\ \A i \in DOMAIN store : store'[i] = store[i]
              /\ store'[id].active = TRUE
              /\ store'[id].latitude = data["latitude"].n
              /\ store'[id].longitude = data["longitude"].n
              /\ store'[id].minyan_type = data["minyanType"].body
              /\ store'[id].earliest_time = ParseTime(data["earliestTime"])
              /\ store'[id].latest_time = ParseTime(data["latestTime"])]_vars

\* a second record has been created next to a stored one
C5_Witness ==
    /\ req.op = "create"
    /\ resp.sent.code = 201
    /\ Cardinality(DOMAIN store) = 2
    /\ resp.sent.body.id \in DOMAIN store

\* the times an update leaves on the row b: the payload's when present
ResultEarliest(b, data) ==
    IF Has(data, "earliestTime") THEN ParseTime(data["earliestTime"])
    ELSE b.earliest_time
ResultLatest(b, data) ==
    IF Has(data, "latestTime") THEN ParseTime(data["latestTime"])
    ELSE b.latest_time
ResultLat(b, data) == IF Has(data, "latitude") THEN data["latitude"] ELSE Num(b.latitude)
ResultLon(b, data) == IF Has(data, "longitude") THEN data["longitude"] ELSE Num(b.longitude)

\* an update payload for the row b with valid merged coordinates and
\* parseable times
Updatable(b, data) ==
    /\ IsNumber(ResultLat(b, data)) /\ IsNumber(ResultLon(b, data))
    /\ ResultLat(b, data).n >= -90 /\ ResultLat(b, data).n <= 90
    /\ ResultLon(b, data).n >= -180 /\ ResultLon(b, data).n <= 180
    /\ ~IsExc(ResultEarliest(b, data))
    /\ ~IsExc(ResultLatest(b, data))

PayloadOf(r) == IF r.data = NoBody THEN NoRows ELSE r.data

\* C6: for an existing id, valid merged coordinates and parseable times, an
\* update succeeds exactly when the resulting pair (payload value when
\* present, stored value when omitted) has latestTime after earliestTime, and
\* then the stored record holds that pair and the merged coordinates.
C6_UpdateIff ==
    [][(/\ req'.op = "update"
        /\ req'.fault = "none"
        /\ req'.id \in DOMAIN store
        /\ Updatable(store[req'.id], PayloadOf(req'))) =>
          LET b == store[req'.id]
              data == PayloadOf(req')
              e == ResultEarliest(b, data)
              l == ResultLatest(b, data)
          IN  /\ (resp'.ret.code = 200) <=> After(l, e)
              /\ Succeeded(resp') <=> After(l, e)
              /\ Succeeded(resp') =>
                    store' = [store EXCEPT ![req'.id] =
                                 [b EXCEPT !.earliest_time = e,
                                           !.latest_time = l,
                                           !.latitude = ResultLat(b, data).n,
                                           !.longitude = ResultLon(b, data).n]]
              /\ ~Succeeded(resp') => store' = store]_vars

\* an update that replaced both times has succeeded and the record holds
\* the new pair
C6_Witness ==
    /\ req.op = "update"
    /\ resp.ret.code = 200
    /\ req.data # NoBody
    /\ Has(req.data, "earliestTime") /\ Has(req.data, "latestTime")
    /\ store[req.id].earliest_time = ParseTime(T8)
    /\ store[req.id].latest_time = ParseTime(T9)

\* the first required field, in the fixed order, that the payload lacks
FirstLacking(data) ==
    IF ~Has(data, "latitude") THEN "latitude"
    ELSE IF ~Has(data, "longitude") THEN "longitude"
    ELSE IF ~Has(data, "minyanType") THEN "minyanType"
    ELSE IF ~Has(data, "earliestTime") THEN "earliestTime"
    ELSE IF ~Has(data, "latestTime") THEN "latestTime"
    ELSE ""

C8_Frame ==
    [][/\ \A id \in DOMAIN store' : store'[id].active = TRUE
       /\ req'.op = "update" =>
              /\ DOMAIN store' = DOMAIN store
              /\ \A id \in DOMAIN store :
                     /\ id # req'.id => store'[id] = store[id]
                     /\ store'[id].minyan_type = store[id].minyan_type
                     /\ store'[id].active = store[id].active
       /\ req'.op = "delete" =>
              /\ DOMAIN store' \subseteq DOMAIN store
              /\ (DOMAIN store) \ (DOMAIN store') \subseteq {req'.id}
              /\ \A id \in DOMAIN store' : store'[id] = store[id]]_vars

\* an update whose payload carries minyanType has succeeded next to another
\* stored record
C8_Witness ==
    /\ req.op = "update"
    /\ resp.ret.code = 200
    /\ req.data # NoBody
    /\ Has(req.data, "minyanType")
    /\ Cardinality(DOMAIN store) = 2
    /\ store[req.id].minyan_type # req.data["minyanType"].body

\* C9: a findNearby whose minyanType is provided and is not one of shacharit,
\* mincha, maariv fails with a ValidationError and returns no broadcasts.
C9_NearbyTypeValidated ==
    (/\ req.op = "findNearby"
     /\ req.fault = "none"
     /\ Has(req.data, "minyanType")
     /\ req.data["minyanType"] \notin valid_types
     /\ ValidNearby([key \in DOMAIN req.data \ {"minyanType"} |-> req.data[key]])) =>
        /\ resp.ret.code = 400
        /\ resp.ret.body.error = "Minyan type must be one of: shacharit, mincha, maariv"
        /\ Items = <<>>

\* the status with which the handlers report a ValidationError and a
\* NotFoundError
ValidationStatus == 400
NotFoundStatus == 404

\* the store raised inside the handler
StoreFaulted(r) == r.ret.body.detail = StoreError

\* C10: a store fault is never reported with the outcome kind of a
\* ValidationError or of a NotFoundError, and no failure is reported as a
\* success.
C10_KindsDistinguished ==
    req.op # "none" =>
        /\ StoreFaulted(resp) =>
              /\ resp.ret.code \notin {ValidationStatus, NotFoundStatus}
              /\ resp.sent.code \notin {ValidationStatus, NotFoundStatus}
        /\ (resp.ret.body.error # "") => ~Succeeded(resp)

\* C11: a request has at most one session, that session is closed when the
\* request ends, whatever its outcome, and no session is open between
\* requests.
C11_SessionLifecycle ==
    /\ [](/\ sessions <= 1
          /\ req # NoReq => (sessions = 1 /\ g.open)
          /\ req = NoReq => (sessions = 0 /\ ~g.open))
    /\ (req # NoReq) ~> (req = NoReq /\ sessions = 0 /\ ~g.open)

\* a second request, in which the store raised inside the handler, holds its
\* session after an earlier request's session was closed
C11_Witness ==
    /\ req.op # "none"
    /\ StoreFaulted(resp)
    /\ DOMAIN store # {}
    /\ sessions = 1
    /\ g.open

\* update s has committed
Committed(s) == txn[s].pc \in {"done", "ended"} /\ txn[s].code = 200

\* the only two updates made are of the same id and have both committed, a
\* changing only earliestTime and b only latestTime
BothCommitted(a, b) ==
    /\ a # b
    /\ Committed(a) /\ Committed(b)
    /\ \A s \in Racers \ {a, b} : txn[s].pc = "idle"
    /\ txn[a].id = txn[b].id
    /\ DOMAIN txn[a].data = {"earliestTime"}
    /\ DOMAIN txn[b].data = {"latestTime"}

\* C12: when two updates of the same id run side by side, one changing only
\* earliestTime and the other only latestTime, then after both commits the
\* stored record has latestTime after earliestTime, in every interleaving, and
\* each field holds the value written by the last update that committed it.
C12_RaceKeepsOrder ==
    \A a, b \in Racers :
        BothCommitted(a, b) =>
            LET row == store[txn[a].id]
            IN  /\ After(row.latest_time, row.earliest_time)
                /\ row.earliest_time = ParseTime(txn[a].data["earliestTime"])
                /\ row.latest_time = ParseTime(txn[b].data["latestTime"])

====
